---- MODULE Spec2Model ----
(***************************************************************************)
(* Model of the food search pipeline of Diet-Plan-Assistant/usda_service.py *)
(* (class USDAService): query cleaning, the five-strategy search cascade,   *)
(* the parsing of a backend response and the extraction of nutrients.       *)
(*                                                                          *)
(* Text is a tuple of one-character strings, so that strip, split, lower    *)
(* and substring tests are computed as Python computes them.  A JSON value  *)
(* that may be missing or null is a record with a tag: "absent" (the key is *)
(* not in the object), "null", "str" (field s) or "num" (field v).  A       *)
(* nutrient value v stands for v/4 (quarters are exact binary floats, so    *)
(* round() behaves on them as on the reals, ties to even).                  *)
(***************************************************************************)
EXTENDS Integers, Sequences, FiniteSets, TLC

\* ---------------------------------------------------------------- bounds
MaxQueryLen == 3
MaxN == 2
LargeN == 30
MaxFoods == 2
MaxNutrients == 2

\* ------------------------------------------------------------ JSON values
Absent == [tag |-> "absent"]
Null == [tag |-> "null"]
Str(s) == [tag |-> "str", s |-> s]
Num(v) == [tag |-> "num", v |-> v]

\* ------------------------------------------------------------------ text
Whitespace == {" ", "\t"}

UpperLetters ==
  <<"A","B","C","D","E","F","G","H","I","J","K","L","M",
    "N","O","P","Q","R","S","T","U","V","W","X","Y","Z">>

LowerLetters ==
  <<"a","b","c","d","e","f","g","h","i","j","k","l","m",
    "n","o","p","q","r","s","t","u","v","w","x","y","z">>

\* str.lower() on one character
LowerChar(c) ==
  IF \E i \in 1..Len(UpperLetters) : UpperLetters[i] = c
  THEN LowerLetters[CHOOSE i \in 1..Len(UpperLetters) : UpperLetters[i] = c]
  ELSE c

\* str.lower()
Lower(s) == [i \in 1..Len(s) |-> LowerChar(s[i])]

\* str.lstrip(), str.rstrip(), str.strip()
RECURSIVE LStrip(_)
LStrip(s) ==
  IF s /= <<>> /\ Head(s) \in Whitespace THEN LStrip(Tail(s)) ELSE s

RECURSIVE RStrip(_)
RStrip(s) ==
  IF s /= <<>> /\ s[Len(s)] \in Whitespace
  THEN RStrip(SubSeq(s, 1, Len(s) - 1))
  ELSE s

Strip(s) == RStrip(LStrip(s))

\* str.split(): the maximal runs of non-whitespace characters, in order
RECURSIVE SplitFrom(_, _, _)
SplitFrom(s, word, words) ==
  IF s = <<>>
  THEN IF word = <<>> THEN words ELSE Append(words, word)
  ELSE IF Head(s) \in Whitespace
       THEN SplitFrom(Tail(s), <<>>,
                      IF word = <<>> THEN words ELSE Append(words, word))
       ELSE SplitFrom(Tail(s), Append(word, Head(s)), words)

Split(s) == SplitFrom(s, <<>>, <<>>)

\* ' '.join(words)
RECURSIVE Join(_)
Join(words) ==
  IF words = <<>> THEN <<>>
  ELSE IF Len(words) = 1 THEN words[1]
       ELSE words[1] \o <<" ">> \o Join(Tail(words))

\* s.startswith(sub)
StartsWith(s, sub) ==
  Len(sub) <= Len(s) /\ SubSeq(s, 1, Len(sub)) = sub

\* sub in s
Contains(s, sub) ==
  \E i \in 0..(Len(s) - Len(sub)) : SubSeq(s, i + 1, i + Len(sub)) = sub

\* s.replace(old, ''): the non-overlapping occurrences, left to right
RECURSIVE Remove(_, _)
Remove(s, old) ==
  IF s = <<>> THEN <<>>
  ELSE IF StartsWith(s, old)
       THEN Remove(SubSeq(s, Len(old) + 1, Len(s)), old)
       ELSE <<Head(s)>> \o Remove(Tail(s), old)

\* ------------------------------------------------------- QueryNormalizer
\* Mutant: the minimum length check accepts one character
TooShortBelowOne(cleaned) == Len(cleaned) < 1

\* Minimum length check of _clean_query: len(cleaned) < 2
TooShort(cleaned) == Len(cleaned) < 2

\* USDAService._clean_query: None is Null, a cleaned text is Str(text)
_clean_query(q) ==
  IF q = <<>> THEN Null
  ELSE LET cleaned == Join(Split(Strip(q)))
       IN IF TooShort(cleaned) THEN Null ELSE Str(cleaned)

\* The descriptors of _simplify_query, in the order of the list
descriptors ==
  << <<",", " ", "r", "a", "w">>,
     <<",", " ", "c", "o", "o", "k", "e", "d">>,
     <<",", " ", "b", "o", "i", "l", "e", "d">>,
     <<",", " ", "b", "a", "k", "e", "d">>,
     <<",", " ", "f", "r", "i", "e", "d">>,
     <<",", " ", "g", "r", "i", "l", "l", "e", "d">>,
     <<",", " ", "r", "o", "a", "s", "t", "e", "d">>,
     <<",", " ", "s", "t", "e", "a", "m", "e", "d">>,
     <<",", " ", "f", "r", "e", "s", "h">>,
     <<",", " ", "d", "r", "i", "e", "d">>,
     <<"r", "a", "w", " ">>,
     <<"c", "o", "o", "k", "e", "d", " ">>,
     <<"b", "o", "i", "l", "e", "d", " ">>,
     <<"b", "a", "k", "e", "d", " ">>,
     <<"f", "r", "i", "e", "d", " ">>,
     <<"g", "r", "i", "l", "l", "e", "d", " ">>,
     <<"r", "o", "a", "s", "t", "e", "d", " ">>,
     <<"s", "t", "e", "a", "m", "e", "d", " ">>,
     <<"f", "r", "e", "s", "h", " ">>,
     <<"d", "r", "i", "e", "d", " ">> >>

\* The loop of _simplify_query over the descriptors from the i-th on
RECURSIVE RemoveDescriptors(_, _)
RemoveDescriptors(s, i) ==
  IF i > Len(descriptors) THEN s
  ELSE RemoveDescriptors(Remove(s, descriptors[i]), i + 1)

\* Mutant: the final strip is left out
_simplify_queryNoStrip(q) == RemoveDescriptors(Lower(q), 1)

\* USDAService._simplify_query
_simplify_query(q) == Strip(RemoveDescriptors(Lower(q), 1))

\* ---------------------------------------------------- nutrient extraction
\* round(value, 0) of value = v/4, ties to even; the result in whole units
Round0(v) ==
  LET f == v \div 4
      r == v % 4
  IN IF r < 2 THEN f
     ELSE IF r > 2 THEN f + 1
          ELSE IF f % 2 = 0 THEN f ELSE f + 1

\* round(value, 1) of value = v/4, ties to even; the result in tenths
Round1(v) ==
  LET t == 5 * v
      f == t \div 2
  IN IF t % 2 = 0 THEN f
     ELSE IF f % 2 = 0 THEN f ELSE f + 1

\* The dict nutrient_mapping: USDA nutrient id -> key
nutrient_mapping ==
  [i \in {1003, 1004, 1005, 1008} |->
     CASE i = 1003 -> "protein"
       [] i = 1004 -> "fat"
       [] i = 1005 -> "carbs"
       [] i = 1008 -> "calories"]

NutrientKeys == <<"calories", "protein", "carbs", "fat">>

\* An empty dict, and d[key] = v
EmptyDict == [x \in {} |-> 0]

SetKey(d, key, v) ==
  [x \in DOMAIN d \cup {key} |-> IF x = key THEN v ELSE d[x]]

\* The texts matched against the lower-cased nutrient name
txt_protein == <<"p","r","o","t","e","i","n">>
txt_carbohydrate == <<"c","a","r","b","o","h","y","d","r","a","t","e">>
txt_total_lipid == <<"t","o","t","a","l"," ","l","i","p","i","d">>
txt_fat_total == <<"f","a","t",","," ","t","o","t","a","l">>
txt_energy == <<"e","n","e","r","g","y">>

Raise(exc) == [tag |-> "raise", exc |-> exc]
Return(v) == [tag |-> "return", v |-> v]

\* Mutant: the skip test forgets value == 0
NoValueOnlyNone(value) == value.tag = "null" \/ value.tag = "absent"

\* The skip test of _extract_nutrients: value is None or value == 0
\* (nutrient.get('value', 0) is 0 when the key is absent)
NoValue(value) ==
  \/ value.tag = "null"
  \/ value.tag = "absent"
  \/ value.tag = "num" /\ value.v = 0

\* The rounding of a recorded value: calories to 0 digits, the rest to 1
Rounded(key, v) == IF key = "calories" THEN Round0(v) ELSE Round1(v)

\* nutrient_id in nutrient_mapping
IdMatches(nutrient_id) ==
  nutrient_id.tag = "num" /\ nutrient_id.v \in DOMAIN nutrient_mapping

\* Mutant: a name match also fills a key that is already set
NameKeyOverwrites(nutrient_name, d) ==
  IF Contains(nutrient_name, txt_protein) THEN "protein"
  ELSE IF Contains(nutrient_name, txt_carbohydrate) THEN "carbs"
  ELSE IF Contains(nutrient_name, txt_total_lipid)
          \/ Contains(nutrient_name, txt_fat_total) THEN "fat"
  ELSE IF Contains(nutrient_name, txt_energy) THEN "calories"
  ELSE ""

\* The elif chain of name matches: the key a name may fill, "" for none
NameKey(nutrient_name, d) ==
  IF Contains(nutrient_name, txt_protein) /\ "protein" \notin DOMAIN d
  THEN "protein"
  ELSE IF Contains(nutrient_name, txt_carbohydrate) /\ "carbs" \notin DOMAIN d
  THEN "carbs"
  ELSE IF (Contains(nutrient_name, txt_total_lipid)
           \/ Contains(nutrient_name, txt_fat_total)) /\ "fat" \notin DOMAIN d
  THEN "fat"
  ELSE IF Contains(nutrient_name, txt_energy) /\ "calories" \notin DOMAIN d
  THEN "calories"
  ELSE ""

\* One iteration of the loop of _extract_nutrients on dict d: Return(d') or
\* Raise (None.lower() is an AttributeError when nutrientName is null)
ExtractOne(d, nutrient) ==
  IF nutrient.nutrientName.tag = "null" THEN Raise("AttributeError")
  ELSE
    LET nutrient_name ==
          IF nutrient.nutrientName.tag = "absent" THEN <<>>
          ELSE Lower(nutrient.nutrientName.s)
        value == nutrient.value
    IN IF NoValue(value) THEN Return(d)
       ELSE IF IdMatches(nutrient.nutrientId)
            THEN LET key == nutrient_mapping[nutrient.nutrientId.v]
                 IN Return(SetKey(d, key, Rounded(key, value.v)))
            ELSE LET key == NameKey(nutrient_name, d)
                 IN IF key = "" THEN Return(d)
                    ELSE Return(SetKey(d, key, Rounded(key, value.v)))

\* The closing loop of _extract_nutrients: every missing key becomes 0
FillDefaults(d) ==
  [x \in DOMAIN d \cup {NutrientKeys[i] : i \in 1..Len(NutrientKeys)} |->
     IF x \in DOMAIN d THEN d[x] ELSE 0]

\* The loop of _extract_nutrients from the i-th nutrient on
RECURSIVE ExtractFrom(_, _, _)
ExtractFrom(d, nutrients_list, i) ==
  IF i > Len(nutrients_list) THEN Return(FillDefaults(d))
  ELSE LET r == ExtractOne(d, nutrients_list[i])
       IN IF r.tag = "raise" THEN r
          ELSE ExtractFrom(r.v, nutrients_list, i + 1)

\* USDAService._extract_nutrients
_extract_nutrients(nutrients_list) == ExtractFrom(EmptyDict, nutrients_list, 1)

\* ------------------------------------------------------ _parse_food_data
\* Mutant: nothing is ever taken for a duplicate
SeenNever(description, seen_names) == FALSE

\* Mutant: the duplicate test forgets to lower-case
SeenCaseSensitive(description, seen_names) == description \in seen_names

\* description_lower in seen_names
Seen(description, seen_names) == Lower(description) \in seen_names

\* Mutant: an entry counts as data-poor only when all four values are zero
DataPoorAllFour(nutrients) ==
  \A x \in DOMAIN nutrients : nutrients[x] = 0

\* not nutrients.get('calories') and not nutrients.get('protein')
DataPoor(nutrients) == nutrients["calories"] = 0 /\ nutrients["protein"] = 0

\* len(foods) >= max_results, tested after an entry was appended
Enough(foods, max_results) == Len(foods) >= max_results

\* The record appended for an accepted entry
FoodRecord(food, description, nutrients) ==
  [name |-> description,
   nutrients |-> nutrients,
   fdcId |-> food.fdcId,
   dataType |-> IF food.dataType.tag = "absent" THEN "Unknown"
                ELSE food.dataType.s]

\* The loop of _parse_food_data from the i-th entry on
RECURSIVE ParseFrom(_, _, _, _, _)
ParseFrom(entries, i, foods, seen_names, max_results) ==
  IF i > Len(entries) THEN Return(foods)
  ELSE
    LET food == entries[i]
    IN IF food.description.tag = "null" THEN Raise("AttributeError")
       ELSE
         LET description ==
               IF food.description.tag = "absent" THEN <<>>
               ELSE Strip(food.description.s)
         IN IF description = <<>>
            THEN ParseFrom(entries, i + 1, foods, seen_names, max_results)
            ELSE IF Seen(description, seen_names)
            THEN ParseFrom(entries, i + 1, foods, seen_names, max_results)
            ELSE
              LET nutrients == _extract_nutrients(food.foodNutrients)
              IN IF nutrients.tag = "raise" THEN nutrients
                 ELSE IF DataPoor(nutrients.v)
                 THEN ParseFrom(entries, i + 1, foods, seen_names, max_results)
                 ELSE
                   LET foods2 == Append(foods,
                                   FoodRecord(food, description, nutrients.v))
                       seen2 == seen_names \cup {Lower(description)}
                   IN IF Enough(foods2, max_results) THEN Return(foods2)
                      ELSE ParseFrom(entries, i + 1, foods2, seen2, max_results)

\* USDAService._parse_food_data on a decoded body: an object's 'foods' is
\* absent (the default []), null (iterating None is a TypeError) or a list;
\* any other JSON value has no .get (AttributeError)
_parse_food_data(response_data, max_results) ==
  IF response_data.tag /= "object" THEN Raise("AttributeError")
  ELSE IF response_data.foods.tag = "absent" THEN Return(<<>>)
  ELSE IF response_data.foods.tag = "null" THEN Raise("TypeError")
  ELSE ParseFrom(response_data.foods.v, 1, <<>>, {}, max_results)

\* ------------------------------------------------------------- inputs
\* Queries: every text of at most MaxQueryLen characters over QueryChars
QueryChars == {" ", "A"}
Queries == UNION {[1..m -> QueryChars] : m \in 0..MaxQueryLen}

\* max_results: the small values, and one past the pageSize cap
MaxResultsValues == (0..MaxN) \cup {LargeN}

txtEnergy == <<"E","n","e","r","g","y">>
txtProtein == <<"P","r","o","t","e","i","n">>
txtFatTotal == <<"F","a","t",","," ","t","o","t","a","l">>

Nutrient(id, name, value) ==
  [nutrientId |-> id, nutrientName |-> name, value |-> value]

\* foodNutrients of the backend entries: 100 kcal by id; 2.5 g protein by
\* name; 5 g carbs with 0.25 kcal (rounds to 0 kcal); nothing
NutEnergy == << Nutrient(Num(1008), Str(txtEnergy), Num(400)) >>
NutProtein == << Nutrient(Absent, Str(txtProtein), Num(10)) >>
NutCarbsOnly ==
  << Nutrient(Num(1005), Absent, Num(20)),
     Nutrient(Num(1008), Str(txtEnergy), Num(1)) >>
NutNothing == << >>

Food(description, foodNutrients, fdcId, dataType) ==
  [description |-> description, foodNutrients |-> foodNutrients,
   fdcId |-> fdcId, dataType |-> dataType]

\* The entries a backend response is made of
FoodEntries ==
  { Food(Str(<<"E","g">>), NutEnergy, 1, Str("SR Legacy")),
    Food(Str(<<"e","G"," ">>), NutProtein, 2, Absent),
    Food(Str(<<"R">>), NutEnergy, 3, Str("Foundation")),
    Food(Str(<<"E","g">>), NutNothing, 4, Str("Branded")),
    Food(Absent, NutEnergy, 5, Str("Branded")),
    Food(Null, NutEnergy, 6, Str("Branded")),
    Food(Str(<<" ">>), NutEnergy, 7, Str("Branded")),
    Food(Str(<<"R">>), NutCarbsOnly, 8, Str("Survey (FNDDS)")) }

FoodLists == UNION {[1..m -> FoodEntries] : m \in 0..MaxFoods}

\* Response bodies: not JSON (response.json() raises ValueError, or its
\* subclass requests.exceptions.JSONDecodeError, a RequestException, with
\* requests >= 2.27), JSON that is no object, or an object
Bodies ==
  {[tag |-> "invalid", exc |-> e] : e \in {"ValueError", "RequestException"}}
  \cup {[tag |-> "other"]}
  \cup {[tag |-> "object", foods |-> f] :
          f \in {Absent, Null} \cup {[tag |-> "list", v |-> l] : l \in FoodLists}}

\* What requests.get does: raises a RequestException (connection error,
\* timeout), or returns a response with a status and a body
Responses ==
  {[kind |-> "neterr"]}
  \cup {[kind |-> "http", status |-> c, body |-> [tag |-> "other"]] :
          c \in {400, 500}}
  \cup {[kind |-> "http", status |-> 200, body |-> b] : b \in Bodies}

\* Nutrient lists for the extraction on its own
NutrientTriples ==
  { Nutrient(id, name, value) :
      id \in {Num(1003), Num(1008), Absent},
      name \in {Absent, Null, Str(txtProtein), Str(txtEnergy), Str(txtFatTotal)},
      value \in {Absent, Null, Num(0), Num(2), Num(8)} }

NutrientLists == UNION {[1..m -> NutrientTriples] : m \in 0..MaxNutrients}

\* ------------------------------------------------------ the search cascade
\* Mutant: the broad strategy is tried second, the Foundation one third
search_strategiesBroadSecond ==
  << [simplify |-> FALSE, data_types |-> <<"SR Legacy">>,
      require_all_words |-> TRUE],
     [simplify |-> FALSE,
      data_types |-> <<"SR Legacy", "Foundation", "Survey (FNDDS)">>,
      require_all_words |-> FALSE],
     [simplify |-> FALSE, data_types |-> <<"Foundation">>,
      require_all_words |-> TRUE],
     [simplify |-> FALSE, data_types |-> <<>>, require_all_words |-> FALSE],
     [simplify |-> TRUE, data_types |-> <<>>, require_all_words |-> FALSE] >>

\* Mutant: a sixth strategy repeats the broadest search
search_strategiesSixth ==
  << [simplify |-> FALSE, data_types |-> <<"SR Legacy">>,
      require_all_words |-> TRUE],
     [simplify |-> FALSE, data_types |-> <<"Foundation">>,
      require_all_words |-> TRUE],
     [simplify |-> FALSE,
      data_types |-> <<"SR Legacy", "Foundation", "Survey (FNDDS)">>,
      require_all_words |-> FALSE],
     [simplify |-> FALSE, data_types |-> <<>>, require_all_words |-> FALSE],
     [simplify |-> TRUE, data_types |-> <<>>, require_all_words |-> FALSE],
     [simplify |-> TRUE, data_types |-> <<>>, require_all_words |-> FALSE] >>

\* The list search_strategies: the query used, data_types (<<>> is None: no
\* dataType parameter is sent) and require_all_words of each lambda
search_strategies ==
  << [simplify |-> FALSE, data_types |-> <<"SR Legacy">>,
      require_all_words |-> TRUE],
     [simplify |-> FALSE, data_types |-> <<"Foundation">>,
      require_all_words |-> TRUE],
     [simplify |-> FALSE,
      data_types |-> <<"SR Legacy", "Foundation", "Survey (FNDDS)">>,
      require_all_words |-> FALSE],
     [simplify |-> FALSE, data_types |-> <<>>, require_all_words |-> FALSE],
     [simplify |-> TRUE, data_types |-> <<>>, require_all_words |-> FALSE] >>

\* Mutant: the page size is not capped
MinNoCap(a, b) == a

\* min(a, b)
Min(a, b) == IF a < b THEN a ELSE b

\* The dict params of _search_with_params (api_key is fixed configuration)
Params(q, max_results, data_types, require_all_words) ==
  [query |-> q,
   pageSize |-> Min(max_results * 2, 50),
   requireAllWords |-> require_all_words,
   dataType |-> data_types]

\* The parameters of the first request of the i-th strategy
StrategyParams(i, cleaned, max_results) ==
  Params(IF search_strategies[i].simplify THEN _simplify_query(cleaned)
         ELSE cleaned,
         max_results,
         search_strategies[i].data_types,
         search_strategies[i].require_all_words)

\* params["requireAllWords"] = False before the second request
RetryParams(params) == [params EXCEPT !.requireAllWords = FALSE]

\* except requests.exceptions.RequestException in _search_with_params
InnerCatches(exc) == exc = "RequestException"

\* Mutant: search_foods catches network errors only
OuterCatchesRequestOnly(exc) == exc = "RequestException"

\* except Exception in search_foods
OuterCatches(exc) ==
  exc \in {"RequestException", "ValueError", "AttributeError", "TypeError"}

\* The try block of _search_with_params under its except clause
Guarded(outcome) ==
  IF outcome.tag = "raise" /\ InnerCatches(outcome.exc) THEN Return(<<>>)
  ELSE outcome

\* data = response.json(); _parse_food_data(data, max_results)
DecodeAndParse(r, max_results) ==
  IF r.body.tag = "invalid" THEN Raise(r.body.exc)
  ELSE _parse_food_data(r.body, max_results)

\* Mutant: the retry does not look at require_all_words
WantsRetryAnyFlag(r, require_all_words) == r.status = 400

\* elif response.status_code == 400: if require_all_words
WantsRetry(r, require_all_words) == r.status = 400 /\ require_all_words

\* _search_with_params after its first request got r: Return(foods),
\* Raise(exc), or "retry" when the second request is to be sent
FirstResponse(r, require_all_words, max_results) ==
  IF r.kind = "neterr" THEN Guarded(Raise("RequestException"))
  ELSE IF r.status = 200 THEN Guarded(DecodeAndParse(r, max_results))
  ELSE IF WantsRetry(r, require_all_words) THEN [tag |-> "retry"]
  ELSE Return(<<>>)

\* _search_with_params after its second request got r
SecondResponse(r, max_results) ==
  IF r.kind = "neterr" THEN Guarded(Raise("RequestException"))
  ELSE IF r.status = 200 THEN Guarded(DecodeAndParse(r, max_results))
  ELSE Return(<<>>)

\* Mutant: a single food is not enough to return
StrategyReturnsSeveral(foods) == Len(foods) > 1

\* Mutant: the loop never returns early
StrategyReturnsNever(foods) == FALSE

\* if foods: return foods
StrategyReturns(foods) == foods /= <<>>

\* What a strategy that ends with response r is said to yield: the parsed
\* foods of a 200 response, and nothing after a network error, any other
\* status or any exception
Yielded(r, max_results) ==
  IF r.kind = "http" /\ r.status = 200
  THEN LET o == DecodeAndParse(r, max_results)
       IN IF o.tag = "return" THEN o.v ELSE <<>>
  ELSE <<>>

VARIABLES
  pc,               \* "idle", "request" (a backend request is due), "done"
  query,            \* the argument query
  max_results,      \* the argument max_results
  cleaned_query,    \* the local cleaned_query
  strategy,         \* the index of the strategy being tried
  retrying,         \* the request due is the second one of the strategy
  calls,            \* the requests sent: the strategy and the parameters
  response,         \* the local response of _search_with_params: what the
                    \* last request of the strategy in progress got; kept
                    \* once search_foods has returned
  outs,             \* what each strategy tried so far yielded
  result,           \* the value search_foods returned
  raised,           \* an exception left search_foods
  epc,              \* _extract_nutrients alone: "off", "loop", "done", "raised"
  nutrients_list,   \* its argument
  ni,               \* the index of the next nutrient of the loop
  nutrients,        \* its dict nutrients
  food_in,          \* the classifiers alone: the record to classify
  category,         \* what categorize_food_by_nutrients(food_in) returned
  food_category,    \* what USDAService.categorize_food(food_in.name) returned
  squery,           \* _simplify_query alone: its argument
  souts,            \* what it returned, applied once and then to its result
  frames,           \* two searches at once: the locals of each search_foods
  backend           \* the responses the backend gave, by request parameters

searchVars ==
  <<pc, query, max_results, cleaned_query, strategy, retrying, calls,
    response, outs, result, raised>>

extractVars == <<epc, nutrients_list, ni, nutrients>>

classifyVars == <<food_in, category, food_category>>

\* The variables of the functions checked on their own
simplifyVars == <<squery, souts>>

pairVars == <<frames, backend>>

sideVars == <<classifyVars, simplifyVars, pairVars>>

vars == <<searchVars, extractVars, sideVars>>

NoResp == [kind |-> "none"]

SearchIdle ==
  /\ pc = "idle"
  /\ query = <<>>
  /\ max_results = 0
  /\ cleaned_query = <<>>
  /\ strategy = 0
  /\ retrying = FALSE
  /\ calls = <<>>
  /\ response = NoResp
  /\ outs = <<>>
  /\ result = <<>>
  /\ raised = FALSE

ExtractOff ==
  /\ epc = "off"
  /\ nutrients_list = <<>>
  /\ ni = 0
  /\ nutrients = EmptyDict

NoFood == [name |-> <<>>, nutrients |-> Absent]

NotYet == "not yet"

ClassifyOff ==
  /\ food_in = NoFood
  /\ category = NotYet
  /\ food_category = NotYet

SimplifyOff ==
  /\ squery = <<>>
  /\ souts = <<>>

PairOff ==
  /\ frames = <<>>
  /\ backend = EmptyDict

SideOff == ClassifyOff /\ SimplifyOff /\ PairOff

Init == SearchIdle /\ ExtractOff /\ SideOff

\* search_foods(q, n) up to its first backend request
Call(q, n) ==
  /\ pc = "idle"
  /\ query' = q
  /\ max_results' = n
  /\ LET cleaned == IF q = <<>> \/ Strip(q) = <<>> THEN Null
                    ELSE _clean_query(q)
     IN IF cleaned.tag = "null"
        THEN /\ pc' = "done"
             /\ UNCHANGED <<cleaned_query, strategy>>
        ELSE /\ pc' = "request"
             /\ cleaned_query' = cleaned.s
             /\ strategy' = 1
  /\ UNCHANGED <<retrying, calls, response, outs, result, raised>>
  /\ UNCHANGED <<extractVars, sideVars>>

\* The loop of search_foods once the current strategy ended with outcome,
\* having got response r last
StrategyEnds(outcome, r) ==
  /\ outs' = Append(outs, Yielded(r, max_results))
  /\ retrying' = FALSE
  /\ IF outcome.tag = "return" /\ StrategyReturns(outcome.v)
     THEN /\ pc' = "done"
          /\ result' = outcome.v
          /\ UNCHANGED <<strategy, raised>>
     ELSE IF outcome.tag = "raise" /\ ~OuterCatches(outcome.exc)
     THEN /\ pc' = "done"
          /\ raised' = TRUE
          /\ UNCHANGED <<strategy, result>>
     ELSE IF strategy < Len(search_strategies)
     THEN /\ pc' = "request"
          /\ strategy' = strategy + 1
          /\ UNCHANGED <<result, raised>>
     ELSE /\ pc' = "done"
          /\ UNCHANGED <<strategy, result, raised>>
  /\ response' = IF pc' = "request" THEN NoResp ELSE r

\* The first request of the current strategy and what follows its response
FirstRequest(r) ==
  /\ pc = "request"
  /\ ~retrying
  /\ LET params == StrategyParams(strategy, cleaned_query, max_results)
         outcome == FirstResponse(r, params.requireAllWords, max_results)
     IN /\ calls' = Append(calls, [strategy |-> strategy, params |-> params])
        /\ IF outcome.tag = "retry"
           THEN /\ retrying' = TRUE
                /\ response' = r
                /\ UNCHANGED <<pc, strategy, outs, result, raised>>
           ELSE StrategyEnds(outcome, r)
  /\ UNCHANGED <<query, max_results, cleaned_query>>
  /\ UNCHANGED <<extractVars, sideVars>>

\* The second request of the current strategy and what follows its response
SecondRequest(r) ==
  /\ pc = "request"
  /\ retrying
  /\ LET params ==
           RetryParams(StrategyParams(strategy, cleaned_query, max_results))
     IN /\ calls' = Append(calls, [strategy |-> strategy, params |-> params])
        /\ StrategyEnds(SecondResponse(r, max_results), r)
  /\ UNCHANGED <<query, max_results, cleaned_query>>
  /\ UNCHANGED <<extractVars, sideVars>>

Next ==
  \/ \E q \in Queries, n \in MaxResultsValues : Call(q, n)
  \/ \E r \in Responses : FirstRequest(r)
  \/ \E r \in Responses : SecondRequest(r)

Spec == Init /\ [][Next]_vars

\* ------------------------------------- _extract_nutrients, step by step
InitExtract ==
  /\ SearchIdle
  /\ SideOff
  /\ epc = "loop"
  /\ nutrients_list \in NutrientLists
  /\ ni = 1
  /\ nutrients = EmptyDict

\* One iteration of for nutrient in nutrients_list
ExtractStep ==
  /\ epc = "loop"
  /\ ni <= Len(nutrients_list)
  /\ LET r == ExtractOne(nutrients, nutrients_list[ni])
     IN IF r.tag = "raise"
        THEN /\ epc' = "raised"
             /\ UNCHANGED <<ni, nutrients>>
        ELSE /\ nutrients' = r.v
             /\ ni' = ni + 1
             /\ UNCHANGED epc
  /\ UNCHANGED nutrients_list
  /\ UNCHANGED <<searchVars, sideVars>>

\* The closing loop and the return
ExtractFinish ==
  /\ epc = "loop"
  /\ ni > Len(nutrients_list)
  /\ nutrients' = FillDefaults(nutrients)
  /\ epc' = "done"
  /\ UNCHANGED <<ni, nutrients_list>>
  /\ UNCHANGED <<searchVars, sideVars>>

NextExtract == ExtractStep \/ ExtractFinish

SpecExtract == InitExtract /\ [][NextExtract]_vars

\* ------------------------------------------------------------ the claims
\* The strategies tried so far that yielded something
NonEmptyOuts == {i \in 1..Len(outs) : outs[i] /= <<>>}

\* The backend entries of the response search_foods ended with, when it is
\* a 200 response whose body is an object with a list of foods
HasFoodList ==
  /\ response.kind = "http"
  /\ response.status = 200
  /\ response.body.tag = "object"
  /\ response.body.foods.tag = "list"

\* C1: search_foods returns exactly what the lowest-numbered strategy with a
\* non-empty output yielded; a strategy ending in a network error, a non-200
\* response or an exception counts as empty and the next one is tried;
\* nothing is merged; the result is empty exactly when all five were empty.
C1_FirstNonEmptyStrategyWins ==
  /\ pc = "request" =>
       /\ NonEmptyOuts = {}
       /\ Len(outs) = strategy - 1
  /\ (pc = "done" /\ strategy >= 1) =>
       /\ Len(outs) = strategy
       /\ \A i \in NonEmptyOuts : i = Len(outs)
       /\ IF NonEmptyOuts = {}
          THEN result = <<>> /\ Len(outs) = Len(search_strategies)
          ELSE result = outs[Len(outs)]

\* C1 witness: the third strategy's foods are returned after two empty ones
C1_Witness ==
  /\ pc = "done"
  /\ strategy = 3
  /\ result /= <<>>
  /\ outs = << <<>>, <<>>, result >>

\* C2: no exception leaves search_foods, whatever the backend does (network
\* exception, timeout, any status, a body that is not JSON or is malformed):
\* the call returns a sequence of food records, possibly empty.
C2_NoExceptionEscapes ==
  /\ raised = FALSE
  /\ pc = "done" =>
       /\ DOMAIN result = 1..Len(result)
       /\ \A i \in 1..Len(result) :
            DOMAIN result[i] = {"name", "nutrients", "fdcId", "dataType"}

\* C2 witness: the search ended, empty, after a last strategy whose 200
\* response had a body that is no JSON object
C2_Witness ==
  /\ pc = "done"
  /\ strategy = 5
  /\ response.kind = "http"
  /\ response.status = 200
  /\ response.body.tag = "other"
  /\ result = <<>>
  /\ raised = FALSE

\* C3: once a strategy yielded a non-empty result no further backend call is
\* issued; when strategy 1 succeeds there is exactly one call (two when the
\* require-all-words retry fired) and none with the parameters of 2 to 5.
C3_NoCallAfterSuccess ==
  /\ [](\A i \in NonEmptyOuts :
          /\ pc = "done"
          /\ \A c \in 1..Len(calls) : calls[c].strategy <= i)
  /\ []((pc = "done" /\ Len(outs) = 1 /\ outs[1] /= <<>>) =>
          /\ Len(calls) \in {1, 2}
          /\ calls[1].params =
               Params(cleaned_query, max_results, <<"SR Legacy">>, TRUE)
          /\ Len(calls) = 2 =>
               calls[2].params =
                 Params(cleaned_query, max_results, <<"SR Legacy">>, FALSE))
  /\ [][pc = "done" => calls' = calls]_vars

\* C3 witness: strategy 1 succeeded on its retry, after two calls
C3_Witness ==
  /\ pc = "done"
  /\ Len(outs) = 1
  /\ outs[1] /= <<>>
  /\ Len(calls) = 2

\* The number of characters of q that are not whitespace
NonSpaceCount(q) == Cardinality({i \in 1..Len(q) : q[i] \notin Whitespace})

\* C4: a query that is empty, whitespace-only or shorter than 2 characters
\* once trimmed and collapsed (at most one non-whitespace character) gets an
\* empty result and no backend call.
C4_UnusableQueryNoCall ==
  (pc /= "idle" /\ NonSpaceCount(query) <= 1) =>
    /\ pc = "done"
    /\ result = <<>>
    /\ calls = <<>>
    /\ raised = FALSE

\* C4 witness: a one-letter query between spaces was rejected
C4_Witness ==
  /\ pc = "done"
  /\ Len(query) = 3
  /\ NonSpaceCount(query) = 1
  /\ calls = <<>>

\* A step that sends the second request of a strategy
SecondCallStep ==
  /\ calls /= <<>>
  /\ Len(calls') = Len(calls) + 1
  /\ calls'[Len(calls')].strategy = calls[Len(calls)].strategy

\* C5: a strategy issues at most two backend calls; the second only when the
\* first got a 400 and require-all-words was true; it carries
\* requireAllWords=false and otherwise the same parameters; when it does not
\* get a 200 the strategy yields nothing.
C5_OneShotRetry ==
  /\ [](\A i \in 1..Len(search_strategies) :
          Cardinality({c \in 1..Len(calls) : calls[c].strategy = i}) <= 2)
  /\ [](\A c \in 1..(Len(calls) - 1) :
          calls[c + 1].strategy = calls[c].strategy =>
            /\ calls[c].params.requireAllWords = TRUE
            /\ calls[c + 1].params.requireAllWords = FALSE
            /\ calls[c + 1].params =
                 [calls[c].params EXCEPT !.requireAllWords = FALSE])
  /\ [][SecondCallStep =>
          /\ response.kind = "http"
          /\ response.status = 400
          /\ Len(outs') = Len(outs) + 1
          /\ outs'[Len(outs')] /= <<>> =>
               (response'.kind = "http" /\ response'.status = 200)]_vars

\* C5 witness: the second strategy retried and its retry failed, so that the
\* third was tried
C5_Witness ==
  /\ Len(calls) = 4
  /\ calls[2].strategy = 2
  /\ calls[3].strategy = 2
  /\ calls[4].strategy = 3

\* C6: search_foods(q, n) returns at most n records for every n >= 0,
\* whatever the backend returns.
C6_AtMostMaxResults ==
  pc = "done" => Len(result) <= max_results

\* The extracted calories and protein of a backend entry are both zero
ExtractsNothingUseful(food) ==
  LET n == _extract_nutrients(food.foodNutrients)
  IN n.tag = "return" /\ n.v["calories"] = 0 /\ n.v["protein"] = 0

\* The entry has an empty or missing description, or no usable nutrients
Skippable(food) ==
  \/ food.description.tag \in {"absent", "null"}
  \/ food.description.tag = "str" /\ Strip(food.description.s) = <<>>
  \/ ExtractsNothingUseful(food)

IsUsable(food) == ~Skippable(food)

\* The entry is usable and no usable entry before it has its name, ignoring
\* case
FirstOfItsName(entries, e) ==
  /\ IsUsable(entries[e])
  /\ \A d \in 1..(e - 1) :
       IsUsable(entries[d]) =>
         Lower(Strip(entries[d].description.s))
           /= Lower(Strip(entries[e].description.s))

\* No two records of res have names that are equal ignoring case
NoCaseDuplicates(res) ==
  \A i, j \in 1..Len(res) :
    i < j => Lower(res[i].name) /= Lower(res[j].name)

\* The records of res come from entries, in the order of the entries
InResponseOrder(res, entries) ==
  \E f \in [1..Len(res) -> 1..Len(entries)] :
    /\ \A i, j \in 1..Len(res) : i < j => f[i] < f[j]
    /\ \A i \in 1..Len(res) :
         /\ entries[f[i]].description.tag = "str"
         /\ res[i].name = Strip(entries[f[i]].description.s)
         /\ res[i].fdcId = entries[f[i]].fdcId

\* C7: no two returned records have names equal ignoring case, and the
\* records are in the relative order of their entries in the response; when
\* the cap does not cut the response short, the first entry of each name is
\* returned (of "Eg", "eG ", "R": the first and the third).
C7_NoDuplicatesInOrder ==
  (pc = "done" /\ result /= <<>>) =>
    /\ HasFoodList
    /\ NoCaseDuplicates(result)
    /\ InResponseOrder(result, response.body.foods.v)
    /\ Len(response.body.foods.v) <= max_results =>
         \A e \in 1..Len(response.body.foods.v) :
           FirstOfItsName(response.body.foods.v, e) =>
             \E i \in 1..Len(result) :
               result[i].fdcId = response.body.foods.v[e].fdcId

\* C7 witness: of two entries named "Eg" and "eG " only the first is returned
C7_Witness ==
  /\ pc = "done"
  /\ HasFoodList
  /\ max_results = 2
  /\ Len(response.body.foods.v) = 2
  /\ response.body.foods.v[1].fdcId = 1
  /\ response.body.foods.v[2].fdcId = 2
  /\ Len(result) = 1
  /\ result[1].fdcId = 1

\* C8: an entry whose extracted calories and protein are both zero is never
\* returned, whatever its carbs, fat, name or data type: every returned
\* record has calories /= 0 or protein /= 0.
C8_DataPoorExcluded ==
  pc = "done" =>
    /\ \A i \in 1..Len(result) :
         \/ result[i].nutrients["calories"] /= 0
         \/ result[i].nutrients["protein"] /= 0
    /\ HasFoodList =>
         \A e \in 1..Len(response.body.foods.v) :
           ExtractsNothingUseful(response.body.foods.v[e]) =>
             \A i \in 1..Len(result) :
               result[i].fdcId /= response.body.foods.v[e].fdcId

\* C8 witness: a response with the entry that has 5 g of carbs and 0.25 kcal
\* gave a result, without that entry
C8_Witness ==
  /\ pc = "done"
  /\ HasFoodList
  /\ \E e \in 1..Len(response.body.foods.v) :
       response.body.foods.v[e].fdcId = 8
  /\ result /= <<>>
  /\ \A i \in 1..Len(result) : result[i].fdcId /= 8

KeySet == {NutrientKeys[i] : i \in 1..Len(NutrientKeys)}

\* The text a nutrient name must contain to fill key
Mentions(name, key) ==
  CASE key = "protein" -> Contains(name, txt_protein)
    [] key = "carbs" -> Contains(name, txt_carbohydrate)
    [] key = "fat" -> Contains(name, txt_total_lipid)
                        \/ Contains(name, txt_fat_total)
    [] key = "calories" -> Contains(name, txt_energy)

\* The nutrient has a nonzero value and names key, by its id or in its name
MaySet(nutrient, key) ==
  /\ nutrient.value.tag = "num"
  /\ nutrient.value.v /= 0
  /\ \/ /\ nutrient.nutrientId.tag = "num"
        /\ nutrient.nutrientId.v \in DOMAIN nutrient_mapping
        /\ nutrient_mapping[nutrient.nutrientId.v] = key
     \/ /\ nutrient.nutrientName.tag = "str"
        /\ Mentions(Lower(nutrient.nutrientName.s), key)

\* The nutrient has a zero or absent value
ZeroOrAbsent(nutrient) ==
  \/ nutrient.value.tag \in {"absent", "null"}
  \/ nutrient.value.tag = "num" /\ nutrient.value.v = 0

\* The list is one entry with only a calories value
OnlyCalories(list) ==
  /\ Len(list) = 1
  /\ list[1].value.tag = "num"
  /\ list[1].value.v /= 0
  /\ \/ list[1].nutrientId = Num(1008) /\ list[1].nutrientName.tag /= "null"
     \/ list[1].nutrientId = Absent /\ list[1].nutrientName = Str(txtEnergy)

\* What the claim says of every extraction that returned, but for the
\* calories of its example
ExtractionKeys ==
  epc = "done" =>
    /\ DOMAIN nutrients = KeySet
    /\ \A key \in KeySet :
         (\A i \in 1..Len(nutrients_list) : ~MaySet(nutrients_list[i], key))
           => nutrients[key] = 0
    /\ OnlyCalories(nutrients_list) =>
         (nutrients["protein"] = 0 /\ nutrients["carbs"] = 0
            /\ nutrients["fat"] = 0)

\* An iteration on a nutrient with a zero or absent value changes nothing
ZeroNeverSets ==
  (epc = "loop" /\ ni <= Len(nutrients_list)
     /\ ZeroOrAbsent(nutrients_list[ni])) => nutrients' = nutrients

\* C9 as stated: extraction yields exactly the four keys; a zero or absent
\* value never sets or overwrites a key; a key no entry sets is 0; an entry
\* with only a calories value gives calories equal to that value.
C9_CaloriesEqualValue ==
  /\ [](ExtractionKeys)
  /\ [](epc = "done" /\ OnlyCalories(nutrients_list) =>
          4 * nutrients["calories"] = nutrients_list[1].value.v)
  /\ [][ZeroNeverSets]_vars

\* C9 amended: the same, with calories equal to that value rounded to the
\* nearest integer, ties to even (the value is v/4).
C9_CaloriesRoundedValue ==
  /\ [](ExtractionKeys)
  /\ [](epc = "done" /\ OnlyCalories(nutrients_list) =>
          LET c == nutrients["calories"]
              v == nutrients_list[1].value.v
          IN /\ 4 * c - v \in -2..2
             /\ 4 * c - v \in {-2, 2} => c % 2 = 0)
  /\ [][ZeroNeverSets]_vars

\* C9 witness: an entry with only a calories value of 0.5 gave calories 0
C9_Witness ==
  /\ epc = "done"
  /\ nutrients_list = << Nutrient(Num(1008), Absent, Num(2)) >>
  /\ nutrients["calories"] = 0
  /\ nutrients["protein"] = 0

\* C10: an entry with an empty or missing description (key absent or null)
\* or with no usable nutrients is skipped on its own: the strategy returns
\* what it returns for the other entries of the response alone.
C10_SkippedIndividually ==
  (pc = "done" /\ HasFoodList) =>
    LET others == SelectSeq(response.body.foods.v, IsUsable)
        o == _parse_food_data(
               [tag |-> "object", foods |-> [tag |-> "list", v |-> others]],
               max_results)
    IN o.tag = "return" /\ result = o.v

\* ------------------------------------------------------- FoodClassifier
\* app.categorize_food_by_nutrients: protein_keywords
protein_keywords ==
  <<<<"c","h","i","c","k","e","n">>,
    <<"b","e","e","f">>,
    <<"p","o","r","k">>,
    <<"f","i","s","h">>,
    <<"s","a","l","m","o","n">>,
    <<"t","u","n","a">>,
    <<"t","u","r","k","e","y">>,
    <<"d","u","c","k">>,
    <<"e","g","g">>,
    <<"t","o","f","u">>,
    <<"t","e","m","p","e","h">>,
    <<"s","e","i","t","a","n">>,
    <<"l","e","n","t","i","l">>,
    <<"b","e","a","n">>,
    <<"c","h","i","c","k","p","e","a">>,
    <<"p","e","a">>,
    <<"y","o","g","u","r","t">>,
    <<"c","o","t","t","a","g","e"," ","c","h","e","e","s","e">>,
    <<"p","r","o","t","e","i","n">>,
    <<"m","e","a","t">>,
    <<"s","h","r","i","m","p">>,
    <<"c","r","a","b">>,
    <<"l","o","b","s","t","e","r">>,
    <<"l","a","m","b">>,
    <<"v","e","a","l">>,
    <<"v","e","n","i","s","o","n">>,
    <<"b","i","s","o","n">>,
    <<"q","u","a","i","l">>,
    <<"s","a","r","d","i","n","e">>,
    <<"m","a","c","k","e","r","e","l">>>>

\* app.categorize_food_by_nutrients: carb_keywords
carb_keywords ==
  <<<<"r","i","c","e">>,
    <<"p","a","s","t","a">>,
    <<"b","r","e","a","d">>,
    <<"p","o","t","a","t","o">>,
    <<"s","w","e","e","t"," ","p","o","t","a","t","o">>,
    <<"y","a","m">>,
    <<"o","a","t">>,
    <<"o","a","t","m","e","a","l">>,
    <<"q","u","i","n","o","a">>,
    <<"b","a","r","l","e","y">>,
    <<"w","h","e","a","t">>,
    <<"c","o","r","n">>,
    <<"c","e","r","e","a","l">>,
    <<"n","o","o","d","l","e">>,
    <<"s","p","a","g","h","e","t","t","i">>,
    <<"t","o","r","t","i","l","l","a">>,
    <<"b","a","g","e","l">>,
    <<"m","u","f","f","i","n">>,
    <<"c","r","a","c","k","e","r">>,
    <<"c","o","u","s","c","o","u","s">>,
    <<"b","u","l","g","u","r">>,
    <<"f","a","r","r","o">>>>

\* app.categorize_food_by_nutrients: vegetable_keywords
vegetable_keywords ==
  <<<<"b","r","o","c","c","o","l","i">>,
    <<"s","p","i","n","a","c","h">>,
    <<"k","a","l","e">>,
    <<"l","e","t","t","u","c","e">>,
    <<"t","o","m","a","t","o">>,
    <<"c","u","c","u","m","b","e","r">>,
    <<"p","e","p","p","e","r">>,
    <<"c","a","r","r","o","t">>,
    <<"c","e","l","e","r","y">>,
    <<"o","n","i","o","n">>,
    <<"g","a","r","l","i","c">>,
    <<"m","u","s","h","r","o","o","m">>,
    <<"z","u","c","c","h","i","n","i">>,
    <<"s","q","u","a","s","h">>,
    <<"c","a","u","l","i","f","l","o","w","e","r">>,
    <<"c","a","b","b","a","g","e">>,
    <<"b","o","k"," ","c","h","o","y">>,
    <<"a","s","p","a","r","a","g","u","s">>,
    <<"g","r","e","e","n"," ","b","e","a","n">>,
    <<"b","r","u","s","s","e","l","s">>,
    <<"e","g","g","p","l","a","n","t">>,
    <<"r","a","d","i","s","h">>,
    <<"b","e","e","t">>,
    <<"t","u","r","n","i","p">>,
    <<"a","r","u","g","u","l","a">>,
    <<"c","h","a","r","d">>,
    <<"c","o","l","l","a","r","d">>>>

\* app.categorize_food_by_nutrients: fat_keywords
fat_keywords ==
  <<<<"o","i","l">>,
    <<"b","u","t","t","e","r">>,
    <<"a","v","o","c","a","d","o">>,
    <<"n","u","t">>,
    <<"a","l","m","o","n","d">>,
    <<"w","a","l","n","u","t">>,
    <<"c","a","s","h","e","w">>,
    <<"p","e","c","a","n">>,
    <<"p","e","a","n","u","t">>,
    <<"s","e","e","d">>,
    <<"o","l","i","v","e">>,
    <<"c","o","c","o","n","u","t">>,
    <<"c","h","e","e","s","e">>,
    <<"c","r","e","a","m">>,
    <<"m","a","y","o">>,
    <<"g","h","e","e">>>>

\* USDAService.categorize_food: protein_keywords
usda_protein_keywords ==
  <<<<"c","h","i","c","k","e","n">>,
    <<"b","e","e","f">>,
    <<"p","o","r","k">>,
    <<"f","i","s","h">>,
    <<"s","a","l","m","o","n">>,
    <<"t","u","n","a">>,
    <<"t","u","r","k","e","y">>,
    <<"e","g","g">>,
    <<"t","o","f","u">>,
    <<"t","e","m","p","e","h">>,
    <<"s","e","i","t","a","n">>,
    <<"l","e","n","t","i","l">>,
    <<"b","e","a","n">>,
    <<"c","h","i","c","k","p","e","a">>,
    <<"y","o","g","u","r","t">>,
    <<"c","o","t","t","a","g","e"," ","c","h","e","e","s","e">>,
    <<"p","r","o","t","e","i","n">>,
    <<"m","e","a","t">>,
    <<"s","h","r","i","m","p">>,
    <<"c","r","a","b">>,
    <<"l","o","b","s","t","e","r">>,
    <<"d","u","c","k">>,
    <<"l","a","m","b">>,
    <<"v","e","a","l">>,
    <<"v","e","n","i","s","o","n">>>>

\* USDAService.categorize_food: carb_keywords
usda_carb_keywords ==
  <<<<"r","i","c","e">>,
    <<"p","a","s","t","a">>,
    <<"b","r","e","a","d">>,
    <<"p","o","t","a","t","o">>,
    <<"s","w","e","e","t"," ","p","o","t","a","t","o">>,
    <<"y","a","m">>,
    <<"o","a","t">>,
    <<"q","u","i","n","o","a">>,
    <<"b","a","r","l","e","y">>,
    <<"w","h","e","a","t">>,
    <<"c","o","r","n">>,
    <<"c","e","r","e","a","l">>,
    <<"n","o","o","d","l","e">>,
    <<"t","o","r","t","i","l","l","a">>,
    <<"b","a","g","e","l">>,
    <<"m","u","f","f","i","n">>,
    <<"c","r","a","c","k","e","r">>>>

\* USDAService.categorize_food: vegetable_keywords
usda_vegetable_keywords ==
  <<<<"b","r","o","c","c","o","l","i">>,
    <<"s","p","i","n","a","c","h">>,
    <<"k","a","l","e">>,
    <<"l","e","t","t","u","c","e">>,
    <<"t","o","m","a","t","o">>,
    <<"c","u","c","u","m","b","e","r">>,
    <<"p","e","p","p","e","r">>,
    <<"c","a","r","r","o","t">>,
    <<"c","e","l","e","r","y">>,
    <<"o","n","i","o","n">>,
    <<"g","a","r","l","i","c">>,
    <<"m","u","s","h","r","o","o","m">>,
    <<"z","u","c","c","h","i","n","i">>,
    <<"s","q","u","a","s","h">>,
    <<"c","a","u","l","i","f","l","o","w","e","r">>,
    <<"c","a","b","b","a","g","e">>,
    <<"b","o","k"," ","c","h","o","y">>,
    <<"a","s","p","a","r","a","g","u","s">>,
    <<"g","r","e","e","n"," ","b","e","a","n">>,
    <<"p","e","a">>,
    <<"b","r","u","s","s","e","l","s"," ","s","p","r","o","u","t">>,
    <<"e","g","g","p","l","a","n","t">>>>

\* USDAService.categorize_food: fat_keywords
usda_fat_keywords ==
  <<<<"o","i","l">>,
    <<"b","u","t","t","e","r">>,
    <<"a","v","o","c","a","d","o">>,
    <<"n","u","t">>,
    <<"a","l","m","o","n","d">>,
    <<"w","a","l","n","u","t">>,
    <<"c","a","s","h","e","w">>,
    <<"p","e","a","n","u","t">>,
    <<"s","e","e","d">>,
    <<"o","l","i","v","e">>,
    <<"c","o","c","o","n","u","t">>,
    <<"c","h","e","e","s","e">>,
    <<"c","r","e","a","m">>>>

\* any(keyword in name_lower for keyword in keywords)
AnyKeyword(name_lower, keywords) ==
  \E i \in 1..Len(keywords) : Contains(name_lower, keywords[i])

\* nutrients.get(key, 0)
Get(d, key) == IF key \in DOMAIN d THEN d[key] ELSE 0

\* Mutant: the vegetable keywords are checked after the fat keywords
KeywordCategoryFatsFirst(name_lower) ==
  IF AnyKeyword(name_lower, protein_keywords) THEN "proteins"
  ELSE IF AnyKeyword(name_lower, carb_keywords) THEN "carbs"
  ELSE IF AnyKeyword(name_lower, fat_keywords) THEN "fats"
  ELSE IF AnyKeyword(name_lower, vegetable_keywords) THEN "vegetables"
  ELSE "none"

\* The keyword checks of categorize_food_by_nutrients; "none" when the
\* if/elif chain falls through
KeywordCategory(name_lower) ==
  IF AnyKeyword(name_lower, protein_keywords) THEN "proteins"
  ELSE IF AnyKeyword(name_lower, carb_keywords) THEN "carbs"
  ELSE IF AnyKeyword(name_lower, vegetable_keywords) THEN "vegetables"
  ELSE IF AnyKeyword(name_lower, fat_keywords) THEN "fats"
  ELSE "none"

\* (grams * per_gram) / calories > tenths / 10 for calories > 0, the
\* grams given in tenths of a gram. The comparison is exact; the floats of
\* the source give the same answer on every value of the records below
Over(grams10, per_gram, calories, tenths) ==
  grams10 * per_gram > tenths * calories

\* Mutant: the final return yields no category
DefaultUnknown == "unknown"

\* The final return of categorize_food_by_nutrients
DefaultCategory == "proteins"

\* Mutant: the carbohydrate share is tested before the fat share
RatioCategoryCarbsFirst(protein, carbs, fat, calories) ==
  IF calories > 0
  THEN IF Over(protein, 4, calories, 3) THEN "proteins"
       ELSE IF Over(carbs, 4, calories, 4) THEN "carbs"
       ELSE IF Over(fat, 9, calories, 5) THEN "fats"
       ELSE IF carbs < 100 /\ calories < 50 THEN "vegetables"
       ELSE DefaultCategory
  ELSE DefaultCategory

\* The fallback of categorize_food_by_nutrients on the nutrient shares:
\* calories in kcal; protein, carbs and fat in tenths of a gram
RatioCategory(protein, carbs, fat, calories) ==
  IF calories > 0
  THEN IF Over(protein, 4, calories, 3) THEN "proteins"
       ELSE IF Over(fat, 9, calories, 5) THEN "fats"
       ELSE IF Over(carbs, 4, calories, 4) THEN "carbs"
       ELSE IF carbs < 100 /\ calories < 50 THEN "vegetables"
       ELSE DefaultCategory
  ELSE DefaultCategory

\* app.categorize_food_by_nutrients
categorize_food_by_nutrients(f) ==
  LET name_lower == Lower(f.name)
      nutrients_of == IF f.nutrients = Absent THEN EmptyDict ELSE f.nutrients
      by_keyword == KeywordCategory(name_lower)
  IN IF by_keyword /= "none" THEN by_keyword
     ELSE RatioCategory(Get(nutrients_of, "protein"), Get(nutrients_of, "carbs"),
                        Get(nutrients_of, "fat"), Get(nutrients_of, "calories"))

\* USDAService.categorize_food
categorize_food(food_name) ==
  LET name_lower == Lower(food_name)
  IN IF AnyKeyword(name_lower, usda_protein_keywords) THEN "proteins"
     ELSE IF AnyKeyword(name_lower, usda_carb_keywords) THEN "carbs"
     ELSE IF AnyKeyword(name_lower, usda_vegetable_keywords) THEN "vegetables"
     ELSE IF AnyKeyword(name_lower, usda_fat_keywords) THEN "fats"
     ELSE "proteins"

\* ------------------------------------------------- the records classified
PeanutButter == <<"P","e","a","n","u","t"," ","B","u","t","t","e","r">>
GrilledChickenBreast ==
  <<"G","r","i","l","l","e","d"," ","C","h","i","c","k","e","n"," ","B","r","e","a","s","t">>
SteamedBroccoli ==
  <<"S","t","e","a","m","e","d"," ","B","r","o","c","c","o","l","i">>
OliveOil == <<"O","l","i","v","e"," ","O","i","l">>
BrownRice == <<"B","r","o","w","n"," ","R","i","c","e">>
MysteryItem == <<"M","y","s","t","e","r","y"," ","I","t","e","m">>
Eggplant == <<"E","g","g","p","l","a","n","t">>
ButterLettuce == <<"B","u","t","t","e","r"," ","L","e","t","t","u","c","e">>
CornOil == <<"C","o","r","n"," ","O","i","l">>
Pecan == <<"P","e","c","a","n">>
TurkeyRiceSpinachCream ==
  <<"T","u","r","k","e","y"," ","R","i","c","e"," ","S","p","i","n","a","c","h"," ","C","r","e","a","m">>

FoodNames ==
  {PeanutButter, GrilledChickenBreast, SteamedBroccoli, OliveOil,
   BrownRice, MysteryItem, Eggplant, ButterLettuce,
   CornOil, Pecan, TurkeyRiceSpinachCream}

\* A dict nutrients with the keys given a number
NutrientDict(calories, protein, carbs, fat) ==
  LET full == [calories |-> calories, protein |-> protein,
               carbs |-> carbs, fat |-> fat]
  IN [k \in {x \in DOMAIN full : full[x].tag = "num"} |-> full[k].v]

CaloriesValues == {Absent, Num(0), Num(40), Num(100)}
ProteinValues == {Absent, Num(0), Num(75), Num(100)}
CarbsValues == {Absent, Num(0), Num(20), Num(120)}
FatValues == {Absent, Num(0), Num(10), Num(60)}

NutrientDicts ==
  {NutrientDict(c, p, cb, f) :
     c \in CaloriesValues, p \in ProteinValues,
     cb \in CarbsValues, f \in FatValues}

Foods ==
  {[name |-> n, nutrients |-> d] :
     n \in FoodNames, d \in NutrientDicts \cup {Absent}}

\* --------------------------------------------- the classifiers on their own
InitClassify ==
  /\ SearchIdle
  /\ ExtractOff
  /\ SimplifyOff
  /\ PairOff
  /\ food_in \in Foods
  /\ category = NotYet
  /\ food_category = NotYet

\* category = categorize_food_by_nutrients(food)
Categorize ==
  /\ category = NotYet
  /\ category' = categorize_food_by_nutrients(food_in)
  /\ UNCHANGED <<food_in, food_category>>
  /\ UNCHANGED <<searchVars, extractVars, simplifyVars, pairVars>>

\* category = USDAService.categorize_food(food['name'])
CategorizeFood ==
  /\ food_category = NotYet
  /\ food_category' = categorize_food(food_in.name)
  /\ UNCHANGED <<food_in, category>>
  /\ UNCHANGED <<searchVars, extractVars, simplifyVars, pairVars>>

NextClassify == Categorize \/ CategorizeFood

SpecClassify == InitClassify /\ [][NextClassify]_vars

\* The four categories
Categories == {"proteins", "carbs", "vegetables", "fats"}

\* The nutrients of a record, none when the key is missing
NutrientsOf(f) == IF f.nutrients = Absent THEN EmptyDict ELSE f.nutrients

\* C11: categorize_food_by_nutrients returns one of the four categories
\* for every record with a name, whatever its nutrient values: some or all
\* of them zero, some or all of them missing, the nutrients missing
\* altogether
C11_AlwaysOneOfFour ==
  category /= NotYet => category \in Categories

\* A record without a keyword in its name and all its nutrients zero, one
\* without nutrients, and one whose nutrient values decide, all classified
C11_Witness ==
  /\ category \in Categories
  /\ food_in.name = MysteryItem
  /\ \/ food_in.nutrients = Absent
     \/ \A k \in DOMAIN food_in.nutrients : food_in.nutrients[k] = 0

\* The order of the keyword checks and the category each check returns
CategoryOrder == <<"proteins", "carbs", "vegetables", "fats">>

AppKeywordLists ==
  <<protein_keywords, carb_keywords, vegetable_keywords, fat_keywords>>

UsdaKeywordLists ==
  <<usda_protein_keywords, usda_carb_keywords, usda_vegetable_keywords,
    usda_fat_keywords>>

\* The lists with a keyword that occurs in the lower-cased name
MatchingLists(name, lists) ==
  {i \in 1..Len(lists) :
     \E k \in 1..Len(lists[i]) : Contains(Lower(name), lists[i][k])}

Earliest(S) == CHOOSE i \in S : \A j \in S : i <= j

\* C12: when the lower-cased name contains a keyword, both classifiers
\* return the category of the earliest list, in the order protein, carbs,
\* vegetables, fats, that has a keyword in the name, whatever the nutrient
\* values of the record
C12_EarliestListWins ==
  /\ LET M == MatchingLists(food_in.name, AppKeywordLists)
     IN (category /= NotYet /\ M /= {}) =>
          category = CategoryOrder[Earliest(M)]
  /\ LET M == MatchingLists(food_in.name, UsdaKeywordLists)
     IN (food_category /= NotYet /\ M /= {}) =>
          food_category = CategoryOrder[Earliest(M)]

\* A name with a vegetable and a fat keyword, and most of its calories from
\* fat, is a vegetable for both classifiers
C12_Witness ==
  /\ food_in.name = ButterLettuce
  /\ MatchingLists(food_in.name, AppKeywordLists) = {3, 4}
  /\ MatchingLists(food_in.name, UsdaKeywordLists) = {3, 4}
  /\ food_in.nutrients /= Absent
  /\ Get(food_in.nutrients, "calories") = 100
  /\ Get(food_in.nutrients, "fat") = 60
  /\ category = "vegetables"
  /\ food_category = "vegetables"

\* C13: "Peanut Butter" is classified as fats by categorize_food_by_nutrients
\* and by USDAService.categorize_food, no protein, carbohydrate or vegetable
\* keyword occurring in that name
C13_PeanutButterIsFat ==
  (food_in.name = PeanutButter /\ category /= NotYet
     /\ food_category /= NotYet) =>
    /\ category = "fats"
    /\ food_category = "fats"
    /\ MatchingLists(food_in.name, AppKeywordLists) = {4}
    /\ MatchingLists(food_in.name, UsdaKeywordLists) = {4}

\* grams10 tenths of a gram at per_gram kcal a gram are more than pct
\* percent of calories
MoreThanPct(grams10, per_gram, calories, pct) ==
  100 * grams10 * per_gram > pct * 10 * calories

\* The category the nutrient values alone give
ByShares(protein, carbs, fat, calories) ==
  CASE calories > 0 /\ MoreThanPct(protein, 4, calories, 30) -> "proteins"
    [] calories > 0 /\ ~MoreThanPct(protein, 4, calories, 30)
         /\ MoreThanPct(fat, 9, calories, 50) -> "fats"
    [] calories > 0 /\ ~MoreThanPct(protein, 4, calories, 30)
         /\ ~MoreThanPct(fat, 9, calories, 50)
         /\ MoreThanPct(carbs, 4, calories, 40) -> "carbs"
    [] calories > 0 /\ ~MoreThanPct(protein, 4, calories, 30)
         /\ ~MoreThanPct(fat, 9, calories, 50)
         /\ ~MoreThanPct(carbs, 4, calories, 40)
         /\ carbs < 10 * 10 /\ calories < 50 -> "vegetables"
    [] OTHER -> "proteins"

\* The example record: 100 kcal, 10 g protein, 2 g carbs, 1 g fat
ExampleNutrients == NutrientDict(Num(100), Num(100), Num(20), Num(10))

AllZeroNutrients == NutrientDict(Num(0), Num(0), Num(0), Num(0))

\* C14: for a name without any keyword, categorize_food_by_nutrients goes
\* by the shares of the calories: with calories > 0, proteins when protein
\* gives more than 30%, else fats when fat gives more than 50%, else carbs
\* when carbs give more than 40%, else vegetables when carbs < 10 g and
\* calories < 50; proteins in every other case, calories = 0 included.
\* "Mystery Item" is proteins with the example nutrients and with all zero
C14_SharesDecide ==
  (category /= NotYet /\ MatchingLists(food_in.name, AppKeywordLists) = {}) =>
    /\ LET n == NutrientsOf(food_in)
       IN category = ByShares(Get(n, "protein"), Get(n, "carbs"),
                              Get(n, "fat"), Get(n, "calories"))
    /\ (food_in.name = MysteryItem
          /\ food_in.nutrients \in {ExampleNutrients, AllZeroNutrients}) =>
         category = "proteins"

\* "Mystery Item" with the example nutrients, classified
C14_Witness ==
  /\ food_in.name = MysteryItem
  /\ MatchingLists(food_in.name, AppKeywordLists) = {}
  /\ food_in.nutrients = ExampleNutrients
  /\ category = "proteins"

\* Some entry before the e-th has the name of the e-th, ignoring case
HasEarlierNamesake(entries, e) ==
  \E d \in 1..(e - 1) :
    /\ entries[d].description.tag = "str"
    /\ entries[e].description.tag = "str"
    /\ Lower(Strip(entries[d].description.s))
         = Lower(Strip(entries[e].description.s))

\* The records of res come, in order, from entries that all satisfy Ok
ComeFrom(res, entries, Ok(_, _)) ==
  \E f \in [1..Len(res) -> 1..Len(entries)] :
    /\ \A i, j \in 1..Len(res) : i < j => f[i] < f[j]
    /\ \A i \in 1..Len(res) :
         /\ entries[f[i]].description.tag = "str"
         /\ res[i].name = Strip(entries[f[i]].description.s)
         /\ res[i].fdcId = entries[f[i]].fdcId
         /\ Ok(entries, f[i])

NoEarlierNamesake(entries, e) == ~HasEarlierNamesake(entries, e)

\* C16 as stated: an entry whose lower-cased name equals that of an earlier
\* entry of the same response is never returned, whether or not the earlier
\* entry was kept: every returned record comes from the first entry of its
\* name.
C16_FirstOccurrenceOnly ==
  (pc = "done" /\ result /= <<>>) =>
    ComeFrom(result, response.body.foods.v, NoEarlierNamesake)

\* C16 amended: names are compared with those of the entries accepted so
\* far. Every returned record comes from the first entry of its name that
\* has a description and is not data-poor; an earlier entry of the same
\* name that was discarded as data-poor does not keep it out.
C16_FirstAcceptedOnly ==
  (pc = "done" /\ result /= <<>>) =>
    /\ ComeFrom(result, response.body.foods.v, FirstOfItsName)
    /\ \A e \in 1..Len(response.body.foods.v) :
         (/\ Len(response.body.foods.v) <= max_results
          /\ HasEarlierNamesake(response.body.foods.v, e)
          /\ FirstOfItsName(response.body.foods.v, e)) =>
            \E i \in 1..Len(result) :
              result[i].fdcId = response.body.foods.v[e].fdcId

\* A data-poor "Eg" followed by an "Eg" with calories: the second is returned
C16_Witness ==
  /\ pc = "done"
  /\ HasFoodList
  /\ Len(response.body.foods.v) = 2
  /\ response.body.foods.v[1].fdcId = 4
  /\ response.body.foods.v[2].fdcId = 1
  /\ HasEarlierNamesake(response.body.foods.v, 2)
  /\ Len(result) = 1
  /\ result[1].fdcId = 1

\* The c-th call is the first one of its strategy
IsFirstCall(c) == c = 1 \/ calls[c - 1].strategy /= calls[c].strategy

\* C17 as stated: no call with requireAllWords=false is issued until the
\* strategies 1 and 2 have both been tried and yielded nothing.
C17_LooseOnlyAfterStrict ==
  \A c \in 1..Len(calls) :
    calls[c].params.requireAllWords = FALSE =>
      /\ calls[c].strategy >= 3
      /\ Len(outs) >= 2
      /\ outs[1] = <<>>
      /\ outs[2] = <<>>

\* A step that sends a call with requireAllWords=false for strategy 1 or 2
LooseCallOfStrictStrategy ==
  /\ Len(calls') = Len(calls) + 1
  /\ calls'[Len(calls')].params.requireAllWords = FALSE
  /\ calls'[Len(calls')].strategy \in {1, 2}

\* C17 amended: the first call of a strategy carries requireAllWords=false
\* only once the strategies 1 and 2 have both been tried, with
\* requireAllWords=true, and yielded nothing; before that the only calls
\* with requireAllWords=false are the second calls of strategy 1 or 2, each
\* sent after a 400 response to the first call of that strategy.
C17_LooseFirstCallOnlyAfterStrict ==
  /\ [](\A c \in 1..Len(calls) :
          calls[c].params.requireAllWords = FALSE =>
            IF IsFirstCall(c)
            THEN /\ calls[c].strategy >= 3
                 /\ Len(outs) >= 2
                 /\ outs[1] = <<>>
                 /\ outs[2] = <<>>
                 /\ \A k \in {1, 2} :
                      \E b \in 1..(c - 1) :
                        /\ calls[b].strategy = k
                        /\ calls[b].params.requireAllWords = TRUE
            ELSE /\ calls[c].strategy \in {1, 2}
                 /\ calls[c - 1].params.requireAllWords = TRUE)
  /\ [][LooseCallOfStrictStrategy =>
          /\ calls /= <<>>
          /\ calls[Len(calls)].strategy = calls'[Len(calls')].strategy
          /\ response.kind = "http"
          /\ response.status = 400]_vars

\* Strategy 1 got a 400 and sent its second call, with requireAllWords=false,
\* before strategy 2 was tried
C17_Witness ==
  /\ Len(calls) = 2
  /\ calls[1].strategy = 1
  /\ calls[2].strategy = 1
  /\ calls[2].params.requireAllWords = FALSE
  /\ ~\E c \in 1..Len(calls) : calls[c].strategy = 2

\* The rows of the strategy table: the data types and require-all-words
RowDataTypes ==
  << {"SR Legacy"}, {"Foundation"},
     {"SR Legacy", "Foundation", "Survey (FNDDS)"}, {}, {} >>

RowRequireAllWords == <<TRUE, TRUE, FALSE, FALSE, FALSE>>

\* The set of the elements of a sequence
Range(s) == {s[i] : i \in 1..Len(s)}

\* C18: the first call of strategy k carries the parameters of row k: the
\* cleaned query as it is for the strategies 1 to 4 and simplify(cleaned
\* query) for strategy 5; the data types SR Legacy, Foundation, all three,
\* none, none; requireAllWords true, true, false, false, false; and every
\* call carries pageSize = min(maxResults * 2, 50).
C18_FirstCallCarriesRow ==
  /\ \A c \in 1..Len(calls) :
       IsFirstCall(c) =>
         LET k == calls[c].strategy
             p == calls[c].params
         IN /\ k \in 1..5
            /\ cleaned_query = _clean_query(query).s
            /\ p.query = IF k = 5 THEN _simplify_query(cleaned_query)
                         ELSE cleaned_query
            /\ Range(p.dataType) = RowDataTypes[k]
            /\ p.requireAllWords = RowRequireAllWords[k]
  /\ \A c \in 1..Len(calls) :
       calls[c].params.pageSize =
         IF max_results * 2 <= 50 THEN max_results * 2 ELSE 50

\* All five strategies were tried for a large max_results: the page size is
\* capped at 50 and the query of the last call is the simplified one
C18_Witness ==
  /\ \A k \in 1..5 : \E c \in 1..Len(calls) : calls[c].strategy = k
  /\ max_results * 2 > 50
  /\ calls[Len(calls)].strategy = 5
  /\ calls[Len(calls)].params.pageSize = 50
  /\ calls[Len(calls)].params.query /= cleaned_query
  /\ calls[Len(calls)].params.dataType = <<>>

\* The nutrient has a value that is recorded: a number other than 0
HasValue(nutrient) ==
  nutrient.value.tag = "num" /\ nutrient.value.v /= 0

\* The entries of list with a value and the id of key
IdMatched(list, key) ==
  {i \in 1..Len(list) :
     /\ HasValue(list[i])
     /\ list[i].nutrientId.tag = "num"
     /\ list[i].nutrientId.v \in DOMAIN nutrient_mapping
     /\ nutrient_mapping[list[i].nutrientId.v] = key}

\* The entries of list with a value, no id of the table, and key in the name
NameMatched(list, key) ==
  {i \in 1..Len(list) :
     /\ HasValue(list[i])
     /\ ~(list[i].nutrientId.tag = "num"
            /\ list[i].nutrientId.v \in DOMAIN nutrient_mapping)
     /\ list[i].nutrientName.tag = "str"
     /\ Mentions(Lower(list[i].nutrientName.s), key)}

\* C19: the id table decides whatever the order of the list. For each key,
\* when some entry has the id of the key and a nonzero value, the extracted
\* value is the rounded value of an entry matched by id (the last one), also
\* when an entry matched by name comes earlier or later; a name match fills
\* a key only when no entry sets the key by id.
C19_IdTableDecides ==
  epc = "done" =>
    \A key \in KeySet :
      LET ids == IdMatched(nutrients_list, key)
          names == NameMatched(nutrients_list, key)
      IN IF ids /= {}
         THEN /\ \E i \in ids :
                   nutrients[key] = Rounded(key, nutrients_list[i].value.v)
              /\ \A i \in ids :
                   (\A j \in ids : j <= i) =>
                     nutrients[key] = Rounded(key, nutrients_list[i].value.v)
         ELSE \/ nutrients[key] = 0
              \/ \E i \in names :
                   nutrients[key] = Rounded(key, nutrients_list[i].value.v)

\* Protein 0.5 g by name and protein 2 g by id 1003, in either order: the
\* protein extracted is 2.0 g
C19_Witness ==
  /\ epc = "done"
  /\ Len(nutrients_list) = 2
  /\ IdMatched(nutrients_list, "protein") /= {}
  /\ NameMatched(nutrients_list, "protein") /= {}
  /\ \A i \in IdMatched(nutrients_list, "protein") :
       nutrients_list[i].value.v = 8
  /\ \A i \in NameMatched(nutrients_list, "protein") :
       nutrients_list[i].value.v = 2
  /\ nutrients["protein"] = 20

\* ------------------------------------------------ _simplify_query alone
\* The most pieces a query is made of
MaxPieces == 4

\* The pieces the queries are made of: a word, a blank, descriptors as they
\* are listed, in upper case and after a comma, and the two halves of one
Pieces ==
  {<<"r","a">>,
   <<"w"," ">>,
   <<"r","a","w"," ">>,
   <<","," ","r","a","w">>,
   <<"C","o","o","k","e","d"," ">>,
   <<"r","i","c","e">>,
   <<" ">>}

RECURSIVE Concat(_)
Concat(ps) == IF ps = <<>> THEN <<>> ELSE Head(ps) \o Concat(Tail(ps))

SimplifyQueries ==
  {Concat(ps) : ps \in UNION {[1..m -> Pieces] : m \in 0..MaxPieces}}

InitSimplify ==
  /\ SearchIdle
  /\ ExtractOff
  /\ ClassifyOff
  /\ PairOff
  /\ squery \in SimplifyQueries
  /\ souts = <<>>

\* simplified = _simplify_query(query)
Simplify ==
  /\ souts = <<>>
  /\ souts' = <<_simplify_query(squery)>>
  /\ UNCHANGED squery
  /\ UNCHANGED <<searchVars, extractVars, classifyVars, pairVars>>

\* _simplify_query(simplified)
SimplifyAgain ==
  /\ Len(souts) = 1
  /\ souts' = Append(souts, _simplify_query(souts[1]))
  /\ UNCHANGED squery
  /\ UNCHANGED <<searchVars, extractVars, classifyVars, pairVars>>

NextSimplify == Simplify \/ SimplifyAgain

SpecSimplify == InitSimplify /\ [][NextSimplify]_vars

\* No character of s is an upper-case letter
IsLowerCase(s) ==
  \A i \in 1..Len(s) : \A u \in 1..Len(UpperLetters) : s[i] /= UpperLetters[u]

\* s neither starts nor ends with whitespace
IsTrimmed(s) ==
  s /= <<>> => (s[1] \notin Whitespace /\ s[Len(s)] \notin Whitespace)

\* Some descriptor occurs in s
HasDescriptor(s) ==
  \E d \in 1..Len(descriptors) : Contains(s, descriptors[d])

\* C20 as stated: for every query q, simplify(q) is lower-case, trimmed and
\* contains none of the descriptors, so that simplify(simplify(q)) =
\* simplify(q).
C20_SimplifyIdempotent ==
  /\ Len(souts) >= 1 =>
       (IsLowerCase(souts[1]) /\ IsTrimmed(souts[1])
          /\ ~HasDescriptor(souts[1]))
  /\ Len(souts) = 2 => souts[2] = souts[1]

\* C20 amended: for every query q, simplify(q) is lower-case and trimmed.
\* Each descriptor is removed in one pass, so simplify(q) may contain a
\* descriptor that the removals put together; simplify(simplify(q)) =
\* simplify(q) exactly when simplify(q) contains no descriptor.
C20_SimplifyLowerTrimmed ==
  /\ \A i \in 1..Len(souts) : IsLowerCase(souts[i]) /\ IsTrimmed(souts[i])
  /\ Len(souts) = 2 => (souts[2] = souts[1] <=> ~HasDescriptor(souts[1]))

\* "raraw w rice" simplified is "raw rice", and simplified again "rice"
C20_Witness ==
  /\ squery = <<"r","a","r","a","w"," ","w"," ","r","i","c","e">>
  /\ Len(souts) = 2
  /\ souts[1] = <<"r","a","w"," ","r","i","c","e">>
  /\ souts[2] = <<"r","i","c","e">>

\* --------------------------------------------------- two searches at once
\* The searches running side by side
Searches == {1, 2}

\* Their arguments: a query of one word with two values of max_results, a
\* query of two words, an unusable query
PairArgs ==
  {[query |-> <<"A","A">>, max_results |-> 1],
   [query |-> <<"A","A">>, max_results |-> 2],
   [query |-> <<"A"," ","A">>, max_results |-> 1],
   [query |-> <<"A">>, max_results |-> 1]}

\* What the backend answers: a 400 or two usable foods
PairResponses ==
  {[kind |-> "http", status |-> 400, body |-> [tag |-> "other"]]}
  \cup {[kind |-> "http", status |-> 200,
         body |-> [tag |-> "object",
                   foods |-> [tag |-> "list",
                              v |-> << Food(Str(<<"E","g">>), NutEnergy, 1,
                                            Str("SR Legacy")),
                                       Food(Str(<<"R">>), NutEnergy, 3,
                                            Str("Foundation")) >>]]]}

\* The locals of search_foods(q, n) up to its first backend request
StartFrame(q, n) ==
  LET cleaned == IF q = <<>> \/ Strip(q) = <<>> THEN Null
                 ELSE _clean_query(q)
  IN [pc |-> IF cleaned.tag = "null" THEN "done" ELSE "request",
      query |-> q,
      max_results |-> n,
      cleaned_query |-> IF cleaned.tag = "null" THEN <<>> ELSE cleaned.s,
      strategy |-> IF cleaned.tag = "null" THEN 0 ELSE 1,
      retrying |-> FALSE,
      result |-> <<>>,
      raised |-> FALSE]

\* The parameters of the request that is due in frame f for the query cleaned
DueParams(f, cleaned) ==
  IF f.retrying
  THEN RetryParams(StrategyParams(f.strategy, cleaned, f.max_results))
  ELSE StrategyParams(f.strategy, cleaned, f.max_results)

\* The loop of search_foods in frame f once the current strategy ended
AfterStrategy(f, outcome) ==
  IF outcome.tag = "return" /\ StrategyReturns(outcome.v)
  THEN [f EXCEPT !.pc = "done", !.result = outcome.v, !.retrying = FALSE]
  ELSE IF outcome.tag = "raise" /\ ~OuterCatches(outcome.exc)
  THEN [f EXCEPT !.pc = "done", !.raised = TRUE, !.retrying = FALSE]
  ELSE IF f.strategy < Len(search_strategies)
  THEN [f EXCEPT !.strategy = f.strategy + 1, !.retrying = FALSE]
  ELSE [f EXCEPT !.pc = "done", !.retrying = FALSE]

\* Frame f after the request that was due got response r
AfterResponse(f, r, require_all_words) ==
  IF f.retrying THEN AfterStrategy(f, SecondResponse(r, f.max_results))
  ELSE LET outcome == FirstResponse(r, require_all_words, f.max_results)
       IN IF outcome.tag = "retry" THEN [f EXCEPT !.retrying = TRUE]
          ELSE AfterStrategy(f, outcome)

\* Mutant: cleaned_query is kept in one place for all the calls, that of the
\* first search
CleanedQueryOfFirst(s) ==
  frames[CHOOSE x \in DOMAIN frames : \A y \in DOMAIN frames : x <= y]
    .cleaned_query

\* The local cleaned_query of search s
CleanedQuery(s) == frames[s].cleaned_query

InitPair ==
  /\ SearchIdle
  /\ ExtractOff
  /\ ClassifyOff
  /\ SimplifyOff
  /\ frames = <<>>
  /\ backend = EmptyDict

\* Search s is called: search_foods(a.query, a.max_results)
PairCall(s, a) ==
  /\ s \notin DOMAIN frames
  /\ frames' = SetKey(frames, s, StartFrame(a.query, a.max_results))
  /\ UNCHANGED backend
  /\ UNCHANGED <<searchVars, extractVars, classifyVars, simplifyVars>>

\* Search s sends the request that is due and gets r; the backend is
\* unchanged: it answers a request it has seen as it answered it before
PairRequest(s, r) ==
  /\ s \in DOMAIN frames
  /\ frames[s].pc = "request"
  /\ LET params == DueParams(frames[s], CleanedQuery(s))
     IN /\ params \in DOMAIN backend => r = backend[params]
        /\ backend' = SetKey(backend, params, r)
        /\ frames' = [frames EXCEPT
                        ![s] = AfterResponse(frames[s], r,
                                             params.requireAllWords)]
  /\ UNCHANGED <<searchVars, extractVars, classifyVars, simplifyVars>>

NextPair ==
  \/ \E s \in Searches, a \in PairArgs : PairCall(s, a)
  \/ \E s \in Searches, r \in PairResponses : PairRequest(s, r)

SpecPair == InitPair /\ [][NextPair]_vars

\* A search on its own from frame f against the answers b: what it returns,
\* known when b has an answer to every request it sends
RECURSIVE Alone(_, _)
Alone(f, b) ==
  IF f.pc = "done" THEN [known |-> TRUE, result |-> f.result]
  ELSE LET params == DueParams(f, f.cleaned_query)
       IN IF params \notin DOMAIN b THEN [known |-> FALSE, result |-> <<>>]
          ELSE Alone(AfterResponse(f, b[params], params.requireAllWords), b)

\* C15: search_foods keeps no state between or across calls. Of two
\* searches whose steps interleave in any way against an unchanged backend,
\* each returns what it returns on its own: a search alone sends only
\* requests the backend was sent and returns the same result; two searches
\* with the same arguments return equal results.
C15_SearchesDoNotInterfere ==
  /\ \A s \in DOMAIN frames :
       frames[s].pc = "done" =>
         LET alone == Alone(StartFrame(frames[s].query,
                                       frames[s].max_results), backend)
         IN /\ alone.known
            /\ alone.result = frames[s].result
            /\ ~frames[s].raised
  /\ \A s, t \in DOMAIN frames :
       (/\ frames[s].pc = "done"
        /\ frames[t].pc = "done"
        /\ frames[s].query = frames[t].query
        /\ frames[s].max_results = frames[t].max_results) =>
          frames[s].result = frames[t].result

\* Search 2 ran to its result between two steps of search 1, which has
\* other arguments and is two strategies into its cascade
C15_Witness ==
  /\ DOMAIN frames = {1, 2}
  /\ frames[1].pc = "request"
  /\ frames[1].strategy = 3
  /\ frames[2].pc = "done"
  /\ frames[2].result /= <<>>
  /\ frames[1].cleaned_query /= frames[2].cleaned_query
  /\ \E p \in DOMAIN backend : p.query = frames[2].cleaned_query

\* ------------------------------------------------- every request returns
\* A request is sent and answered
RequestStep == pc = "request" /\ Len(calls') = Len(calls) + 1

\* requests.get(url, params=params, timeout=10) returns a response or raises,
\* at the latest on the timeout: no request stays due for ever. This is
\* WF_vars of the request step, which is enabled exactly when pc = "request"
EveryRequestReturns ==
  []<>(pc /= "request") \/ []<><<RequestStep>>_vars

\* search_foods when every request returns, fails or times out
SpecLive == Spec /\ EveryRequestReturns

\* The number of requests sent for strategy k
RequestsOf(k) == Cardinality({c \in 1..Len(calls) : calls[c].strategy = k})

\* C21: every search_foods call terminates, every request returning, failing
\* or timing out, after at most 7 backend requests: at most 2 for each of
\* the strategies 1 and 2, and exactly one for each of the strategies 3, 4
\* and 5 that is reached, which are never retried.
C21_TerminatesWithinSeven ==
  /\ [](/\ Len(calls) <= 7
        /\ \A c \in 1..Len(calls) : calls[c].strategy \in 1..5
        /\ \A k \in {1, 2} : RequestsOf(k) <= 2
        /\ \A k \in {3, 4, 5} : RequestsOf(k) <= 1
        /\ \A k \in 1..Len(outs) :
             /\ RequestsOf(k) >= 1
             /\ k >= 3 => RequestsOf(k) = 1)
  /\ (pc = "request") ~> (pc = "done")

\* A search that sent seven requests and returned
C21_Witness ==
  /\ pc = "done"
  /\ Len(calls) = 7
  /\ RequestsOf(1) = 2
  /\ RequestsOf(2) = 2
  /\ \A k \in {3, 4, 5} : RequestsOf(k) = 1

====
